---------------------------- MODULE Spec2Model ----------------------------
(***************************************************************************)
(* KingDB's database handle (src/interface/kingdb.cc): Get, Put, PutChunk, *)
(* PutChunkValidSize, Delete, NewSnapshot and NewIterator, with the        *)
(* collaborators the handle calls (write buffer, storage engine,           *)
(* compressor, CRC32 stream, thread-local storage) modelled from their     *)
(* documented contracts, since their code is not part of src/.             *)
(***************************************************************************)
EXTENDS Integers, Naturals, Sequences, FiniteSets, TLC

(***************************************************************************)
(* Bounds of the model.                                                    *)
(***************************************************************************)
\* db_options_.storage__maximum_chunk_size: a configuration value
storage__maximum_chunk_size == 2
\* the longest value a writer declares (size_value)
MaxValue == 3
\* how many payload bytes the compressor may save or add on one chunk
MaxShrink == 1
MaxExpand == 1
\* the largest padding the engine grants on top of the frame-size rule
MaxPadBase == 1
\* entries one writer thread writes one after the other
MaxEntries == 2
\* number of keys and of mutating calls of the database-level specification
NumKeys == 2
MaxOps == 3
\* the largest offset_chunk and the number of calls of a client that calls
\* PutChunk with arguments of its own choosing
MaxOffset == 1
MaxCalls == 2

\* uint64_t arithmetic of lines 137-140 and 185-186 wraps; the model keeps
\* the wrap-around with a narrower word (all legitimate values are far below).
Wrap == 2^16
U64(x) == x % Wrap

Threads == {1, 2}
Keys == 1..NumKeys

Max(a, b) == IF a >= b THEN a ELSE b

RECURSIVE Concat(_)
Concat(ss) == IF ss = <<>> THEN <<>> ELSE Head(ss) \o Concat(Tail(ss))

Zeros(n) == [i \in 1..n |-> 0]

(***************************************************************************)
(* Status (spec 4.2).                                                      *)
(***************************************************************************)
StOK == [code |-> "OK", msg |-> ""]
StNotFound(m) == [code |-> "NotFound", msg |-> m]
StDeleteOrder == [code |-> "DeleteOrder", msg |-> ""]
StIOError(m) == [code |-> "IOError", msg |-> m]
StInvalidArgument == [code |-> "InvalidArgument", msg |-> ""]

MsgNotOpen == "The database is not open"
MsgOutside == "Prevented write to occur outside of the allocated memory."
MsgNoEntry == "Unable to find entry"
MsgFs == "filesystem"
MsgCompress == "compression"

IsOK(s) == s.code = "OK"
IsNotFound(s) == s.code = "NotFound"
IsDeleteOrder(s) == s.code = "DeleteOrder"

(***************************************************************************)
(* Bytes.  A key or a value is a sequence of bytes 1..63; the bytes of a   *)
(* value tell their position and the version of the value.                 *)
(***************************************************************************)
KeyData(k) == <<k>>
ValueOf(ver, n) == [i \in 1..n |-> 10 * ver + i]

(***************************************************************************)
(* Streaming compressor (spec 4.4).  A frame is a header of                *)
(* size_frame_header bytes, whose first byte is the length of the payload  *)
(* (0: the frame stores its bytes verbatim, up to the end of the entry),   *)
(* followed by the payload; the payload of a compressed frame is one code  *)
(* byte for the source, filled up to the length the compressor produced.   *)
(***************************************************************************)
size_frame_header == 1
size_uncompressed_frame(n) == size_frame_header + n

RECURSIVE Encode(_)
Encode(s) == IF s = <<>> THEN 0 ELSE Head(s) + 64 * Encode(Tail(s))
RECURSIVE Decode(_)
Decode(x) == IF x = 0 THEN <<>> ELSE <<x % 64>> \o Decode(x \div 64)

FrameHeader(payload) == <<payload>> \o Zeros(size_frame_header - 1)
\* Compress(src, src_len, &compressed, &size_compressed), size_compressed = len
Compress(src, len) ==
  FrameHeader(len - size_frame_header) \o <<Encode(src)>>
    \o Zeros(len - size_frame_header - 1)
\* new char[size_uncompressed_frame(n)], DisableCompressionInFrameHeader, memcpy
UncompressedFrame(src) == FrameHeader(0) \o src

\* the reader's side: the frames of an entry back to the value
RECURSIVE Uncompress(_)
Uncompress(bytes) ==
  IF bytes = <<>> THEN [ok |-> TRUE, data |-> <<>>]
  ELSE IF Len(bytes) < size_frame_header THEN [ok |-> FALSE, data |-> <<>>]
  ELSE IF bytes[1] = 0
       THEN [ok |-> TRUE, data |-> SubSeq(bytes, size_frame_header + 1, Len(bytes))]
  ELSE IF Len(bytes) < size_frame_header + bytes[1]
       THEN [ok |-> FALSE, data |-> <<>>]
  ELSE LET rest == Uncompress(SubSeq(bytes, size_frame_header + bytes[1] + 1, Len(bytes)))
       IN [ok |-> rest.ok,
           data |-> Decode(bytes[size_frame_header + 1]) \o rest.data]

(***************************************************************************)
(* Streaming CRC32 (spec 4.3): reset, stream, get.                         *)
(***************************************************************************)
CrcReset == 7
RECURSIVE Crc32Stream(_, _)
Crc32Stream(c, bytes) ==
  IF bytes = <<>> THEN c
  ELSE Crc32Stream((c * 5 + Head(bytes) + 1) % 9973, Tail(bytes))
Crc32Get(c) == c + 1
CRC32(bytes) == Crc32Get(Crc32Stream(CrcReset, bytes))


(***************************************************************************)
(* State.                                                                  *)
(***************************************************************************)
VARIABLES
  compression_type,        \* db_options_.compression.type
  pad_base,                \* the engine's padding rule (EntryHeader)
  is_closed,               \* KingDB::is_closed_
  fs_status,               \* what se_->FileSystemStatus() returns
  ts_compression_enabled_, \* thread-local: compression still on for the entry
  ts_offset_,              \* thread-local: output offset once fallback is on
  size_compressed_,        \* thread-local: compressor_.size_compressed()
  crc32_,                  \* thread-local: state of the CRC32 stream
  wb,                      \* write buffer: per key, the orders not yet drained
  se,                      \* storage engine: per key, the orders written to files
  fileid,                  \* the engine's current append file
  snapshots,               \* the snapshots handed out
  writer,                  \* per thread: the entry it is writing chunk by chunk
  alone,                   \* per thread: the same calls made with no other thread,
                           \* and the calls of the entry under way made on a
                           \* thread that has written nothing before
  live,                    \* per key: what the completed writes say it holds
  nops,                    \* mutating calls made so far
  last                     \* the last call of the API: arguments and outcome

vars == <<compression_type, pad_base, is_closed, fs_status,
          ts_compression_enabled_, ts_offset_, size_compressed_, crc32_,
          wb, se, fileid, snapshots, writer, alone, live, nops, last>>

kNoCompression == "none"
kLZ4Compression == "lz4"

\* EntryHeader::CalculatePaddingSize(size_value): room for frame headers
CalculatePaddingSize(size_value) ==
  pad_base + size_frame_header * (size_value \div storage__maximum_chunk_size)

(***************************************************************************)
(* Thread-local storage: one slot per calling thread.                      *)
(***************************************************************************)
TsGet(m, t) == m[t]
TsPut(m, t, v) == [m EXCEPT ![t] = v]

\* the four thread-local objects of the handle, as one record
Locals == [ce |-> ts_compression_enabled_, off |-> ts_offset_,
           csize |-> size_compressed_, crc |-> crc32_]

(***************************************************************************)
(* What the environment decides in one PutChunkValidSize call: whether     *)
(* Compress fails, how many payload bytes it produces relative to the      *)
(* source, and what a read of the freed chunk (line 169) yields.           *)
(***************************************************************************)
Oracles ==
  [fail : {FALSE}, delta : (0 - MaxShrink)..MaxExpand, intact : BOOLEAN]
    \cup [fail : {TRUE}, delta : (0 - MaxShrink)..MaxExpand, intact : {TRUE}]
NoOracle == [fail |-> FALSE, delta |-> 0, intact |-> TRUE]
OutLen(n, o) == size_frame_header + Max(1, n + o.delta)
GarbageSize == 0

\* a dispatch to wb_->PutChunk (lines 192-198)
Order(key, chunk_final, offset_chunk_compressed, size_value, size_value_compressed, crc32) ==
  [type |-> "put", key |-> key, chunk |-> chunk_final,
   offset |-> offset_chunk_compressed, size_value |-> size_value,
   size_value_compressed |-> size_value_compressed, crc32 |-> crc32]
DeleteOrder(key) == [type |-> "delete", key |-> key]


(***************************************************************************)
(* KingDB::PutChunkValidSize, lines 71-199.  c holds the thread-local      *)
(* objects and the write buffer, t is the calling thread, o the            *)
(* environment's choices.  The result is the state after the call, the     *)
(* status returned and a record of what the call did.                      *)
(***************************************************************************)
CallRecord(offset_chunk, n, size_value, ce_before, status, calls, sent, engaged) ==
  [offset_chunk |-> offset_chunk, n |-> n, size_value |-> size_value,
   ce_before |-> ce_before, status |-> status, calls |-> calls,
   sent |-> sent, engaged |-> engaged]
\* the same with the chunk given, the offset computed for it and the length
\* the compressor produced (0 when it was not called)
CallRecordOf(chunk, offset_chunk_compressed, size_compressed, call) ==
  [offset_chunk |-> call.offset_chunk, n |-> call.n, size_value |-> call.size_value,
   ce_before |-> call.ce_before, status |-> call.status, calls |-> call.calls,
   sent |-> call.sent, engaged |-> call.engaged, chunk |-> chunk,
   offset_chunk_compressed |-> offset_chunk_compressed,
   size_compressed |-> size_compressed]

\* lines 137-140: the budget test that switches the entry to fallback
BudgetExceeded(size_value, offset_chunk, n, offset_chunk_compressed, size_compressed) ==
  LET size_remaining == U64(size_value - offset_chunk)
      space_left == U64(size_value + CalculatePaddingSize(size_value)
                          - offset_chunk_compressed)
  IN U64(size_remaining - n + size_frame_header) > U64(space_left - size_compressed)

\* lines 184-186: the write would end outside of the space of the entry
OutsideNever(offset_chunk_compressed, size_final, size_value, do_compression) == FALSE
Outside(offset_chunk_compressed, size_final, size_value, do_compression) ==
  LET size_padding == IF do_compression THEN CalculatePaddingSize(size_value) ELSE 0
  IN U64(offset_chunk_compressed + size_final) > U64(size_value + size_padding)

\* lines 102-114: entry boot and the offset of a chunk in fallback mode
EntryBootShared(c, t, n, offset_chunk) ==
  LET is_first_chunk == (offset_chunk = 0)
      ce1 == IF is_first_chunk THEN TsPut(c.ce, 1, 1) ELSE c.ce
      off1 == IF is_first_chunk THEN TsPut(c.off, 1, 0) ELSE c.off
      fb == TsGet(ce1, 1) = 0
      occ == IF fb THEN TsGet(off1, 1) ELSE offset_chunk
  IN [ce |-> ce1,
      off |-> IF fb THEN TsPut(off1, 1, U64(occ + n)) ELSE off1,
      offset_chunk_compressed |-> occ]
EntryBootNoAdvance(c, t, n, offset_chunk) ==
  LET is_first_chunk == (offset_chunk = 0)
      ce1 == IF is_first_chunk THEN TsPut(c.ce, t, 1) ELSE c.ce
      off1 == IF is_first_chunk THEN TsPut(c.off, t, 0) ELSE c.off
  IN [ce |-> ce1, off |-> off1,
      offset_chunk_compressed |-> IF TsGet(ce1, t) = 0 THEN TsGet(off1, t)
                                  ELSE offset_chunk]
EntryBootEveryChunk(c, t, n, offset_chunk) ==
  [ce |-> TsPut(c.ce, t, 1), off |-> TsPut(c.off, t, 0),
   offset_chunk_compressed |-> offset_chunk]
EntryBoot(c, t, n, offset_chunk) ==
  LET is_first_chunk == (offset_chunk = 0)
      ce1 == IF is_first_chunk THEN TsPut(c.ce, t, 1) ELSE c.ce
      off1 == IF is_first_chunk THEN TsPut(c.off, t, 0) ELSE c.off
      fb == TsGet(ce1, t) = 0
      occ == IF fb THEN TsGet(off1, t) ELSE offset_chunk
  IN [ce |-> ce1,
      off |-> IF fb THEN TsPut(off1, t, U64(occ + n)) ELSE off1,
      offset_chunk_compressed |-> occ]

\* lines 119-121: the compressor's running size starts at 0 on the first chunk
CompressorCarriedOver(csize, t, offset_chunk) == csize
CompressorAtEntry(csize, t, offset_chunk) ==
  IF offset_chunk = 0 THEN TsPut(csize, t, 0) ELSE csize

\* lines 119-149: the compressed branch, up to the test of Compress's status
CompressBranch(c, b, t, chunk, offset_chunk, size_value, o) ==
  LET n == Len(chunk)
      cs0 == CompressorAtEntry(c.csize, t, offset_chunk)
      occ == TsGet(cs0, t)
      out == OutLen(n, o)
      cs1 == IF o.fail THEN cs0 ELSE TsPut(cs0, t, U64(occ + out))
      engaged == BudgetExceeded(size_value, offset_chunk, n, occ, out)
      cs2 == IF engaged THEN TsPut(cs1, t, U64(TsGet(cs1, t) - out)) ELSE cs1
      size_compressed == IF engaged THEN U64(n + size_frame_header) ELSE out
  IN [ce |-> IF engaged THEN TsPut(b.ce, t, 0) ELSE b.ce,
      off |-> IF engaged THEN TsPut(b.off, t, U64(TsGet(cs2, t) + size_compressed))
                         ELSE b.off,
      csize |-> cs2,
      offset_chunk_compressed |-> occ,
      chunk_final |-> IF engaged THEN UncompressedFrame(chunk) ELSE Compress(chunk, out),
      engaged |-> engaged,
      out_len |-> out,
      calls |-> (IF offset_chunk = 0 THEN <<"compressor.Reset">> ELSE <<>>)
                  \o <<"compressor.Compress">>]

\* line 179: the bytes of a chunk that go into the CRC32 stream
CrcInputOriginal(chunk, chunk_final) == chunk
CrcInput(chunk, chunk_final) == chunk_final

\* line 92: the chunk that reaches the declared size of the value is the last
IsLastChunkAlways(n, offset_chunk, size_value) == TRUE
IsLastChunk(n, offset_chunk, size_value) == U64(n + offset_chunk) = size_value

\* lines 165-198: final compressed size, CRC32, bounds check, dispatch
Finish(c, b, t, key, chunk, offset_chunk, size_value, o, ce_before, deleted) ==
  LET n == Len(chunk)
      is_first_chunk == (offset_chunk = 0)
      is_last_chunk == IsLastChunk(n, offset_chunk, size_value)
      do_compression == ~(n = 0 \/ compression_type = kNoCompression)
      \* line 169 reads chunk->size() after line 162 deleted the chunk
      size_read == IF deleted /\ ~o.intact THEN GarbageSize ELSE n
      size_value_compressed ==
        IF do_compression /\ is_last_chunk
        THEN IF TsGet(b.ce, t) = 1 THEN TsGet(b.csize, t)
             ELSE U64(b.offset_chunk_compressed + size_read)
        ELSE 0
      crc1 == IF is_first_chunk
              THEN TsPut(c.crc, t, Crc32Stream(CrcReset, KeyData(key)))
              ELSE c.crc
      crc2 == TsPut(crc1, t, Crc32Stream(TsGet(crc1, t), CrcInput(chunk, b.chunk_final)))
      crc32 == IF is_last_chunk THEN Crc32Get(TsGet(crc2, t)) ELSE 0
      crccalls == (IF is_first_chunk THEN <<"crc32.Reset", "crc32.stream">> ELSE <<>>)
                    \o <<"crc32.stream">>
                    \o (IF is_last_chunk THEN <<"crc32.get">> ELSE <<>>)
      order == Order(key, b.chunk_final, b.offset_chunk_compressed, size_value,
                     size_value_compressed, crc32)
      c1 == [ce |-> b.ce, off |-> b.off, csize |-> b.csize, crc |-> crc2, wb |-> c.wb]
  IN IF Outside(b.offset_chunk_compressed, Len(b.chunk_final), size_value, do_compression)
     THEN [c |-> c1, status |-> StIOError(MsgOutside),
           call |-> CallRecordOf(chunk, b.offset_chunk_compressed, b.out_len,
                      CallRecord(offset_chunk, n, size_value, ce_before,
                                 StIOError(MsgOutside), b.calls \o crccalls, <<>>,
                                 b.engaged))]
     ELSE [c |-> [c1 EXCEPT !.wb[key] = Append(@, order)], status |-> StOK,
           call |-> CallRecordOf(chunk, b.offset_chunk_compressed, b.out_len,
                      CallRecord(offset_chunk, n, size_value, ce_before, StOK,
                                 b.calls \o crccalls \o <<"wb.PutChunk">>, <<order>>,
                                 b.engaged))]

PutChunkValidSize(c, t, key, chunk, offset_chunk, size_value, o) ==
  LET n == Len(chunk)
      ce_before == TsGet(c.ce, t)
  IN IF is_closed
     THEN [c |-> c, status |-> StIOError(MsgNotOpen),
           call |-> CallRecordOf(chunk, offset_chunk, 0,
                      CallRecord(offset_chunk, n, size_value, ce_before,
                                 StIOError(MsgNotOpen), <<>>, <<>>, FALSE))]
     ELSE IF ~IsOK(fs_status)
     THEN [c |-> c, status |-> fs_status,
           call |-> CallRecordOf(chunk, offset_chunk, 0,
                      CallRecord(offset_chunk, n, size_value, ce_before, fs_status,
                                 <<"se.FileSystemStatus">>, <<>>, FALSE))]
     ELSE
     LET do_compression == ~(n = 0 \/ compression_type = kNoCompression)
         boot == EntryBoot(c, t, n, offset_chunk)
     IN IF ~do_compression \/ TsGet(boot.ce, t) = 0
        THEN Finish(c, [ce |-> boot.ce, off |-> boot.off, csize |-> c.csize,
                        offset_chunk_compressed |-> boot.offset_chunk_compressed,
                        chunk_final |-> chunk, engaged |-> FALSE, out_len |-> 0,
                        calls |-> <<"se.FileSystemStatus">>],
                    t, key, chunk, offset_chunk, size_value, o, ce_before, FALSE)
        ELSE LET b == CompressBranch(c, boot, t, chunk, offset_chunk, size_value, o)
                 bb == [b EXCEPT !.calls = <<"se.FileSystemStatus">> \o @]
             IN IF o.fail
                THEN [c |-> [ce |-> b.ce, off |-> b.off, csize |-> b.csize,
                             crc |-> c.crc, wb |-> c.wb],
                      status |-> StIOError(MsgCompress),
                      call |-> CallRecordOf(chunk, b.offset_chunk_compressed, b.out_len,
                                 CallRecord(offset_chunk, n, size_value, ce_before,
                                            StIOError(MsgCompress), bb.calls, <<>>,
                                            b.engaged))]
                ELSE Finish(c, bb, t, key, chunk, offset_chunk, size_value, o,
                            ce_before, TRUE)

(***************************************************************************)
(* KingDB::PutChunk, lines 40-68, and KingDB::Put, lines 35-37.  os gives  *)
(* the environment's choices for the successive PutChunkValidSize calls.   *)
(* A ByteArray after set_offset(o) shows the bytes from o to its end.      *)
(***************************************************************************)
set_offsetIgnored(chunk, offset) == chunk
set_offset(chunk, offset) == SubSeq(chunk, offset + 1, Len(chunk))
SimpleByteArray(chunk, offset, size) == SubSeq(chunk, offset + 1, offset + size)

\* lines 63-64: what one turn of the loop leaves, given the call's result x
AfterCall(r, x) == [c |-> x.c, status |-> x.status, calls |-> Append(r.calls, x.call)]

\* line 64: the loop is left at the first status that is not OK
BreaksNever(status) == FALSE
Breaks(status) == ~IsOK(status)

RECURSIVE PutChunkLoop(_, _, _, _, _, _, _, _, _)
PutChunkLoop(r, t, key, chunk, offset_chunk, size_value, os, offset, i) ==
  IF ~(offset < Len(chunk)) THEN r
  ELSE LET chunk_new ==
             IF offset + storage__maximum_chunk_size < Len(chunk)
             THEN SimpleByteArray(chunk, offset, storage__maximum_chunk_size)
             ELSE set_offset(chunk, offset)
           Rest(rx) ==
             IF Breaks(rx.status) THEN rx
             ELSE PutChunkLoop(rx, t, key, chunk, offset_chunk, size_value, os,
                               offset + storage__maximum_chunk_size, i + 1)
       IN CHOOSE res \in
            {Rest(rx) : rx \in
               {AfterCall(r, x) : x \in
                  {PutChunkValidSize(r.c, t, key, chunk_new,
                                     U64(offset_chunk + offset), size_value, os[i])}}} :
            TRUE

PutChunk(c, t, key, chunk, offset_chunk, size_value, os) ==
  IF is_closed THEN [c |-> c, status |-> StIOError(MsgNotOpen), calls |-> <<>>]
  ELSE IF size_value <= storage__maximum_chunk_size
  THEN CHOOSE res \in
         {AfterCall([calls |-> <<>>], x) : x \in
            {PutChunkValidSize(c, t, key, chunk, offset_chunk, size_value, os[1])}} :
         TRUE
  ELSE PutChunkLoop([c |-> c, status |-> StOK, calls |-> <<>>], t, key, chunk,
                    offset_chunk, size_value, os, 0, 1)

Put(c, t, key, chunk, os) == PutChunk(c, t, key, chunk, 0, Len(chunk), os)


(***************************************************************************)
(* Write buffer and storage engine (spec 2, 4.6-4.8, 6).  Both keep, per   *)
(* key, the orders in the order received.  An entry is the chunks from an  *)
(* order at offset 0 up to the order that carries the entry's CRC32; its   *)
(* on-disk bytes are the chunks laid at their offsets, size_value_compressed*)
(* of them when that is set, size_value of them otherwise.                 *)
(***************************************************************************)
IsLastOrder(o) == o.type = "put" /\ o.crc32 # 0
IsComplete(o) == o.type = "delete" \/ IsLastOrder(o)

PlaceAt(bytes, offset, chunk) ==
  [i \in 1..Max(Len(bytes), offset + Len(chunk)) |->
     IF i > offset /\ i <= offset + Len(chunk) THEN chunk[i - offset]
     ELSE IF i <= Len(bytes) THEN bytes[i] ELSE 0]

Found(status, value) == [kind |-> "entry", status |-> status, value |-> value]
Nothing == [kind |-> "none", status |-> StNotFound(MsgNoEntry), value |-> <<>>]
Tombstone == [kind |-> "deleted", status |-> StDeleteOrder, value |-> <<>>]

\* the value an entry's on-disk bytes stand for, as a reader gets it
ReadEntry(o, bytes) ==
  IF o.size_value_compressed = 0
  THEN IF Len(bytes) >= o.size_value
       THEN Found(StOK, SubSeq(bytes, 1, o.size_value))
       ELSE Found(StIOError("entry"), <<>>)
  ELSE IF Len(bytes) < o.size_value_compressed
       THEN Found(StIOError("entry"), <<>>)
  ELSE LET u == Uncompress(SubSeq(bytes, 1, o.size_value_compressed))
       IN IF u.ok THEN Found(StOK, u.data) ELSE Found(StIOError("frame"), <<>>)

\* the state of a key after a sequence of orders: cur is what a reader finds
\* (Nothing, Tombstone or what ReadEntry gives), bytes the entry under way
RECURSIVE Replay(_, _)
Replay(st, orders) ==
  IF orders = <<>> THEN st
  ELSE LET o == Head(orders)
           bytes == IF o.type = "delete" THEN st.bytes
                    ELSE PlaceAt(IF o.offset = 0 THEN <<>> ELSE st.bytes,
                                 o.offset, o.chunk)
       IN Replay(IF o.type = "delete" THEN [cur |-> Tombstone, bytes |-> st.bytes]
                 ELSE IF IsLastOrder(o) THEN [cur |-> ReadEntry(o, bytes), bytes |-> <<>>]
                 ELSE [cur |-> st.cur, bytes |-> bytes],
                 Tail(orders))
KeyState(orders) == Replay([cur |-> Nothing, bytes |-> <<>>], orders).cur

\* wb_->Get: the buffered orders alone decide
WbGet(key) ==
  LET cur == KeyState(wb[key]) IN [status |-> cur.status, value |-> cur.value]

\* se_->Get on the orders of the files up to fileid_end
Orders(records, fileid_end) ==
  LET kept == SelectSeq(records, LAMBDA r : r.file <= fileid_end)
  IN [i \in 1..Len(kept) |-> kept[i].order]
SeGetAt(key, fileid_end) ==
  LET cur == KeyState(Orders(se[key], fileid_end))
  IN IF cur.kind = "entry" THEN [status |-> cur.status, value |-> cur.value]
     ELSE [status |-> StNotFound(MsgNoEntry), value |-> <<>>]
SeGet(key) == SeGetAt(key, fileid)

\* the buffer hands the engine the orders up to the last one that completes
\* an entry or is a tombstone; the chunks of an entry under way stay
RECURSIVE CompletePrefix(_)
CompletePrefix(orders) ==
  IF orders = <<>> THEN 0
  ELSE IF IsComplete(orders[Len(orders)]) THEN Len(orders)
  ELSE CompletePrefix(SubSeq(orders, 1, Len(orders) - 1))
FlushedSe(buffer) ==
  [k \in Keys |->
     se[k] \o [i \in 1..CompletePrefix(buffer[k]) |->
                 [order |-> buffer[k][i], file |-> fileid]]]
FlushedWb(buffer) ==
  [k \in Keys |-> SubSeq(buffer[k], CompletePrefix(buffer[k]) + 1, Len(buffer[k]))]

(***************************************************************************)
(* Callers.  A writer thread writes an entry as a sequence of PutChunk     *)
(* calls, contiguous and in order from offset 0 to size_value, and gives   *)
(* the entry up at the first error.                                        *)
(***************************************************************************)
NoCall == [op |-> "none", thread |-> 0, key |-> 0, chunk |-> <<>>,
           offset_chunk |-> 0, size_value |-> 0, closed |-> FALSE,
           status |-> StOK, value |-> <<>>, calls |-> <<>>, wb_status |-> StOK,
           se_status |-> StOK, wb_value |-> <<>>, se_value |-> <<>>,
           collab |-> <<>>, wellformed |-> FALSE,
           snapshot |-> 0, iterator |-> "none", data_ok |-> TRUE]

IdleWriter == [pc |-> "idle", key |-> 0, value |-> <<>>, pos |-> 0,
               wellformed |-> FALSE, log |-> <<>>, crccalls |-> <<>>,
               entries |-> 0]

Ctx == [ce |-> ts_compression_enabled_, off |-> ts_offset_,
        csize |-> size_compressed_, crc |-> crc32_, wb |-> wb]
FreshCtx == [ce |-> [t \in Threads |-> 0], off |-> [t \in Threads |-> 0],
             csize |-> [t \in Threads |-> 0], crc |-> [t \in Threads |-> 0],
             wb |-> [k \in Keys |-> <<>>]]
SetCtx(c) ==
  /\ ts_compression_enabled_' = c.ce
  /\ ts_offset_' = c.off
  /\ size_compressed_' = c.csize
  /\ crc32_' = c.crc
  /\ wb' = c.wb

\* what a sequence of PutChunkValidSize calls handed to the write buffer
RECURSIVE Sent(_)
Sent(calls) == IF calls = <<>> THEN <<>> ELSE Head(calls).sent \o Sent(Tail(calls))
IsCrcCall(name) == name \in {"crc32.Reset", "crc32.stream", "crc32.get"}
RECURSIVE CrcCalls(_)
CrcCalls(calls) ==
  IF calls = <<>> THEN <<>>
  ELSE SelectSeq(Head(calls).calls, IsCrcCall) \o CrcCalls(Tail(calls))

\* the environment's choices for a PutChunk call with n bytes: one per
\* PutChunkValidSize call, and none to make when nothing is compressed
SubChunks(n) ==
  Max(1, (n + storage__maximum_chunk_size - 1) \div storage__maximum_chunk_size)
OracleSeqs(n) ==
  IF compression_type = kNoCompression THEN {[i \in 1..SubChunks(n) |-> NoOracle]}
  ELSE [1..SubChunks(n) -> Oracles]

DbUnchanged == UNCHANGED <<compression_type, pad_base, is_closed, fs_status,
                           se, fileid, snapshots>>
Held(value) == [kind |-> "value", value |-> value]
Deleted == [kind |-> "deleted", value |-> <<>>]
Unwritten == [kind |-> "none", value |-> <<>>]

\* the caller decides on the next entry: its key and its value
Begin(t, k, ver, n) ==
  /\ writer[t].pc # "writing"
  /\ writer[t].entries < MaxEntries
  /\ nops' = nops + 1
  /\ writer' = [writer EXCEPT ![t] =
       [pc |-> "writing", key |-> k, value |-> ValueOf(ver, n), pos |-> 0,
        wellformed |-> TRUE, log |-> <<>>, crccalls |-> <<>>,
        entries |-> @.entries + 1]]
  /\ alone' = [alone EXCEPT ![t].log = <<>>, ![t].fresh = FreshCtx,
                            ![t].freshlog = <<>>]
  /\ UNCHANGED <<ts_compression_enabled_, ts_offset_, size_compressed_, crc32_,
                 wb, last, live>>
  /\ DbUnchanged

\* one PutChunk call with the next n bytes of the entry
NextChunk(t, n) == SubSeq(writer[t].value, writer[t].pos + 1, writer[t].pos + n)
WriteChunk(t, n, os) ==
  /\ writer[t].pc = "writing"
  /\ n <= Len(writer[t].value) - writer[t].pos
  /\ (n = 0 /\ Len(writer[t].value) > 0) => writer[t].wellformed
  /\ \E r \in {PutChunk(Ctx, t, writer[t].key, NextChunk(t, n), writer[t].pos,
                        Len(writer[t].value), os)} :
     \E ra \in {PutChunk(alone[t].c, t, writer[t].key, NextChunk(t, n),
                         writer[t].pos, Len(writer[t].value), os)} :
     \E rf \in {PutChunk(alone[t].fresh, t, writer[t].key, NextChunk(t, n),
                         writer[t].pos, Len(writer[t].value), os)} :
     LET w == writer[t]
         size_value == Len(w.value)
         wf == w.wellformed /\ (n > 0 \/ size_value = 0)
         pos == IF IsOK(r.status) THEN w.pos + n ELSE w.pos
         done == IsOK(r.status) /\ pos = size_value /\ wf
     IN /\ SetCtx(r.c)
        /\ live' = IF done THEN [live EXCEPT ![w.key] = Held(w.value)] ELSE live
        /\ writer' = [writer EXCEPT ![t] =
             [w EXCEPT !.pos = pos,
                       !.pc = IF ~IsOK(r.status) THEN "failed"
                              ELSE IF done THEN "done"
                              ELSE "writing",
                       !.wellformed = wf,
                       !.log = @ \o Sent(r.calls),
                       !.crccalls = @ \o CrcCalls(r.calls)]]
        /\ alone' = [alone EXCEPT ![t] =
             [c |-> [ra.c EXCEPT !.wb = FreshCtx.wb],
              log |-> @.log \o Sent(ra.calls),
              fresh |-> [rf.c EXCEPT !.wb = FreshCtx.wb],
              freshlog |-> @.freshlog \o Sent(rf.calls)]]
        /\ last' = [NoCall EXCEPT !.op = "PutChunk", !.thread = t, !.key = w.key,
                                  !.chunk = NextChunk(t, n), !.offset_chunk = w.pos,
                                  !.size_value = size_value, !.closed = is_closed,
                                  !.status = r.status, !.calls = r.calls,
                                  !.wellformed = wf]
  /\ UNCHANGED nops
  /\ DbUnchanged

\* the disk fails, and recovers
FsFail ==
  /\ IsOK(fs_status)
  /\ fs_status' = StIOError(MsgFs)
  /\ UNCHANGED <<compression_type, pad_base, is_closed, ts_compression_enabled_,
                 ts_offset_, size_compressed_, crc32_, wb, se, fileid, snapshots,
                 writer, alone, live, nops, last>>
FsHeal ==
  /\ ~IsOK(fs_status)
  /\ fs_status' = StOK
  /\ UNCHANGED <<compression_type, pad_base, is_closed, ts_compression_enabled_,
                 ts_offset_, size_compressed_, crc32_, wb, se, fileid, snapshots,
                 writer, alone, live, nops, last>>

(***************************************************************************)
(* KingDB::Get, lines 9-32: w is what wb_->Get gives, e what se_->Get      *)
(* gives when it is asked.                                                 *)
(***************************************************************************)
GetKeepDeleteOrder(closed, w, e) ==
  IF closed THEN [status |-> StIOError(MsgNotOpen), value |-> <<>>, collab |-> <<>>]
  ELSE IF IsNotFound(w.status)
  THEN [status |-> e.status, value |-> e.value, collab |-> <<"wb.Get", "se.Get">>]
  ELSE [status |-> w.status, value |-> w.value, collab |-> <<"wb.Get">>]
GetBufferOnly(closed, w, e) ==
  IF closed THEN [status |-> StIOError(MsgNotOpen), value |-> <<>>, collab |-> <<>>]
  ELSE IF IsDeleteOrder(w.status)
  THEN [status |-> StNotFound(MsgNoEntry), value |-> w.value, collab |-> <<"wb.Get">>]
  ELSE [status |-> w.status, value |-> w.value, collab |-> <<"wb.Get">>]
Get(closed, w, e) ==
  IF closed THEN [status |-> StIOError(MsgNotOpen), value |-> <<>>, collab |-> <<>>]
  ELSE IF IsDeleteOrder(w.status)
  THEN [status |-> StNotFound(MsgNoEntry), value |-> w.value, collab |-> <<"wb.Get">>]
  ELSE IF IsNotFound(w.status)
  THEN [status |-> e.status, value |-> e.value, collab |-> <<"wb.Get", "se.Get">>]
  ELSE [status |-> w.status, value |-> w.value, collab |-> <<"wb.Get">>]

\* KingDB::Delete, lines 202-209
DeleteUnchecked(buffer, key) ==
  IF ~IsOK(fs_status)
  THEN [wb |-> buffer, status |-> fs_status, collab |-> <<"se.FileSystemStatus">>]
  ELSE [wb |-> [buffer EXCEPT ![key] = Append(@, DeleteOrder(key))],
        status |-> StOK, collab |-> <<"se.FileSystemStatus", "wb.Delete">>]
Delete(buffer, key) ==
  IF is_closed
  THEN [wb |-> buffer, status |-> StIOError(MsgNotOpen), collab |-> <<>>]
  ELSE IF ~IsOK(fs_status)
  THEN [wb |-> buffer, status |-> fs_status, collab |-> <<"se.FileSystemStatus">>]
  ELSE [wb |-> [buffer EXCEPT ![key] = Append(@, DeleteOrder(key))],
        status |-> StOK, collab |-> <<"se.FileSystemStatus", "wb.Delete">>]

\* KingDB::NewSnapshot, lines 212-238; data_ok: GetNewSnapshotData succeeds.
\* snapshot 0 is the null pointer.
NewSnapshotNoAbort(data_ok) ==
  IF is_closed
  THEN [wb |-> wb, se |-> se, fileid |-> fileid, snapshots |-> snapshots,
        snapshot |-> 0, collab |-> <<>>]
  ELSE [wb |-> FlushedWb(wb), se |-> FlushedSe(wb), fileid |-> fileid + 1,
        snapshots |-> Append(snapshots,
                             [snapshot_id |-> Len(snapshots) + 1,
                              fileid_end |-> fileid, fileids_ignore |-> {},
                              live |-> live]),
        snapshot |-> Len(snapshots) + 1,
        collab |-> <<"wb.Flush", "se.FlushCurrentFileForSnapshot",
                     "se.GetNewSnapshotData", "StorageEngine", "se.GetFileidsIterator",
                     "Snapshot">>]
NewSnapshot(data_ok) ==
  IF is_closed
  THEN [wb |-> wb, se |-> se, fileid |-> fileid, snapshots |-> snapshots,
        snapshot |-> 0, collab |-> <<>>]
  ELSE IF ~data_ok
  THEN [wb |-> FlushedWb(wb), se |-> FlushedSe(wb), fileid |-> fileid + 1,
        snapshots |-> snapshots, snapshot |-> 0,
        collab |-> <<"wb.Flush", "se.FlushCurrentFileForSnapshot",
                     "se.GetNewSnapshotData">>]
  ELSE [wb |-> FlushedWb(wb), se |-> FlushedSe(wb), fileid |-> fileid + 1,
        snapshots |-> Append(snapshots,
                             [snapshot_id |-> Len(snapshots) + 1,
                              fileid_end |-> fileid, fileids_ignore |-> {},
                              live |-> live]),
        snapshot |-> Len(snapshots) + 1,
        collab |-> <<"wb.Flush", "se.FlushCurrentFileForSnapshot",
                     "se.GetNewSnapshotData", "StorageEngine", "se.GetFileidsIterator",
                     "Snapshot">>]

\* KingDB::NewIterator, lines 241-248.  Line 244 calls through the pointer
\* NewSnapshot returned; through a null pointer the call is undefined, and
\* ub is what the build makes of it.
NewIterator(data_ok, ub) ==
  IF is_closed
  THEN [NewSnapshot(data_ok) EXCEPT !.collab = <<>>] @@ [iterator |-> "null"]
  ELSE LET s == NewSnapshot(data_ok)
       IN IF s.snapshot = 0
          THEN [s EXCEPT !.collab = @ \o <<"null->NewIterator">>] @@ [iterator |-> ub]
          ELSE [s EXCEPT !.collab = @ \o <<"snapshot.NewIterator", "SetParentSnapshot">>]
                 @@ [iterator |-> "iterator"]

(***************************************************************************)
(* The calls of the API, as a client thread makes them.                    *)
(***************************************************************************)
PipelineUnchanged == UNCHANGED <<ts_compression_enabled_, ts_offset_,
                                 size_compressed_, crc32_, writer, alone>>
ConfigUnchanged == UNCHANGED <<compression_type, pad_base, is_closed, fs_status>>
Counted == nops' = IF is_closed THEN nops ELSE nops + 1

PutCall(t, k, ver, n, os) ==
  /\ writer[t].pc # "writing"
  /\ writer[t].entries < MaxEntries
  /\ nops < MaxOps
  /\ \E r \in {Put(Ctx, t, k, ValueOf(ver, n), os)} :
       /\ SetCtx(r.c)
       /\ live' = IF IsOK(r.status) THEN [live EXCEPT ![k] = Held(ValueOf(ver, n))]
                  ELSE live
       /\ last' = [NoCall EXCEPT !.op = "Put", !.thread = t, !.key = k,
                                 !.chunk = ValueOf(ver, n), !.size_value = n,
                                 !.closed = is_closed, !.status = r.status,
                                 !.calls = r.calls, !.wellformed = TRUE]
  /\ writer' = [writer EXCEPT ![t].entries = @ + 1]
  /\ Counted
  /\ DbUnchanged
  /\ UNCHANGED alone

DeleteCall(k) ==
  /\ nops < MaxOps
  /\ \E r \in {Delete(wb, k)} :
       /\ wb' = r.wb
       /\ live' = IF IsOK(r.status) THEN [live EXCEPT ![k] = Deleted] ELSE live
       /\ last' = [NoCall EXCEPT !.op = "Delete", !.thread = 1, !.key = k,
                                 !.closed = is_closed, !.status = r.status,
                                 !.collab = r.collab]
  /\ Counted
  /\ PipelineUnchanged
  /\ ConfigUnchanged
  /\ UNCHANGED <<se, fileid, snapshots>>

GetCall(k) ==
  /\ \E r \in {Get(is_closed, WbGet(k), SeGet(k))} :
       last' = [NoCall EXCEPT !.op = "Get", !.thread = 1, !.key = k,
                              !.closed = is_closed, !.status = r.status,
                              !.value = r.value, !.collab = r.collab,
                              !.wb_status = WbGet(k).status,
                              !.se_status = SeGet(k).status,
                              !.wb_value = WbGet(k).value,
                              !.se_value = SeGet(k).value]
  /\ PipelineUnchanged
  /\ ConfigUnchanged
  /\ UNCHANGED <<wb, se, fileid, snapshots, live, nops>>

NewSnapshotCall(data_ok) ==
  /\ nops < MaxOps
  /\ \E r \in {NewSnapshot(data_ok)} :
       /\ wb' = r.wb
       /\ se' = r.se
       /\ fileid' = r.fileid
       /\ snapshots' = r.snapshots
       /\ last' = [NoCall EXCEPT !.op = "NewSnapshot", !.thread = 1,
                                 !.closed = is_closed, !.snapshot = r.snapshot,
                                 !.collab = r.collab,
                                 !.data_ok = data_ok \/ is_closed]
  /\ Counted
  /\ PipelineUnchanged
  /\ ConfigUnchanged
  /\ UNCHANGED live

NewIteratorCall(data_ok, ub) ==
  /\ nops < MaxOps
  /\ \E r \in {NewIterator(data_ok, ub)} :
       /\ wb' = r.wb
       /\ se' = r.se
       /\ fileid' = r.fileid
       /\ snapshots' = r.snapshots
       /\ last' = [NoCall EXCEPT !.op = "NewIterator", !.thread = 1,
                                 !.closed = is_closed, !.snapshot = r.snapshot,
                                 !.iterator = r.iterator, !.collab = r.collab,
                                 !.data_ok = data_ok \/ is_closed]
  /\ Counted
  /\ PipelineUnchanged
  /\ ConfigUnchanged
  /\ UNCHANGED live

\* a read through snapshot i: the read-only engine view up to fileid_end
SnapshotGetCall(i, k) ==
  /\ i \in 1..Len(snapshots)
  /\ \E r \in {SeGetAt(k, snapshots[i].fileid_end)} :
       last' = [NoCall EXCEPT !.op = "SnapshotGet", !.thread = 1, !.key = k,
                              !.snapshot = i, !.status = r.status,
                              !.value = r.value, !.collab = <<"se_readonly.Get">>]
  /\ PipelineUnchanged
  /\ ConfigUnchanged
  /\ UNCHANGED <<wb, se, fileid, snapshots, live, nops>>

\* the write buffer's own thread hands the engine what is complete
Drain ==
  /\ ~is_closed
  /\ \E k \in Keys : CompletePrefix(wb[k]) > 0
  /\ wb' = FlushedWb(wb)
  /\ se' = FlushedSe(wb)
  /\ PipelineUnchanged
  /\ ConfigUnchanged
  /\ UNCHANGED <<fileid, snapshots, live, nops, last>>

Close ==
  /\ ~is_closed
  /\ is_closed' = TRUE
  /\ PipelineUnchanged
  /\ UNCHANGED <<compression_type, pad_base, fs_status, wb, se, fileid, snapshots,
                 live, nops, last>>

Init ==
  /\ compression_type \in {kNoCompression, kLZ4Compression}
  /\ pad_base \in 0..MaxPadBase
  /\ is_closed = FALSE
  /\ fs_status = StOK
  /\ ts_compression_enabled_ = [t \in Threads |-> 0]
  /\ ts_offset_ = [t \in Threads |-> 0]
  /\ size_compressed_ = [t \in Threads |-> 0]
  /\ crc32_ = [t \in Threads |-> 0]
  /\ wb = [k \in Keys |-> <<>>]
  /\ se = [k \in Keys |-> <<>>]
  /\ fileid = 1
  /\ snapshots = <<>>
  /\ writer = [t \in Threads |-> IdleWriter]
  /\ alone = [t \in Threads |-> [c |-> FreshCtx, log |-> <<>>,
                                  fresh |-> FreshCtx, freshlog |-> <<>>]]
  /\ live = [k \in Keys |-> Unwritten]
  /\ nops = 0
  /\ last = NoCall

(***************************************************************************)
(* Spec: one writer thread writing entry after entry, chunk by chunk.      *)
(***************************************************************************)
Next ==
  \/ \E n \in 0..MaxValue : Begin(1, 1, writer[1].entries + 1, n)
  \/ \E n \in 0..MaxValue : \E os \in OracleSeqs(n) : WriteChunk(1, n, os)

Spec == Init /\ [][Next]_vars


(***************************************************************************)
(* SpecDB: one client thread using the whole API, the write buffer         *)
(* draining behind it, on a disk that may fail, until the database closes. *)
(***************************************************************************)
DbKeys == {1}
NextDB ==
  \/ \E k \in DbKeys, n \in 0..MaxValue :
       \E os \in OracleSeqs(n) : PutCall(1, k, (nops % 2) + 1, n, os)
  \/ \E k \in DbKeys : DeleteCall(k)
  \/ \E k \in DbKeys : GetCall(k)
  \/ \E data_ok \in BOOLEAN : NewSnapshotCall(data_ok)
  \/ \E data_ok \in BOOLEAN, ub \in {"crash", "garbage"} : NewIteratorCall(data_ok, ub)
  \/ \E i \in 1..MaxOps, k \in DbKeys : SnapshotGetCall(i, k)
  \/ Drain
  \/ Close
  \/ FsFail
  \/ FsHeal

SpecDB == Init /\ [][NextDB]_vars


(***************************************************************************)
(* SpecTwo: two writer threads, each writing one entry under its own key,  *)
(* their PutChunk calls interleaved in every way.                          *)
(***************************************************************************)
NextTwo ==
  \/ \E t \in Threads, n \in 1..MaxValue :
       writer[t].entries = 0 /\ Begin(t, t, t, n)
  \/ \E t \in Threads, n \in 1..storage__maximum_chunk_size :
       \E os \in OracleSeqs(n) : WriteChunk(t, n, os)

SpecTwo == Init /\ [][NextTwo]_vars

(***************************************************************************)
(* SpecGet: Get over every pair of answers the write buffer and the engine *)
(* can give.                                                               *)
(***************************************************************************)
Statuses == {StOK, StNotFound(MsgNoEntry), StNotFound("other"), StDeleteOrder,
             StIOError(MsgFs), StInvalidArgument}
Answers == [status : Statuses, value : {<<>>, ValueOf(1, 1), ValueOf(2, MaxValue)}]

GetAnswers(w, e) ==
  /\ \E r \in {Get(is_closed, w, e)} :
       last' = [NoCall EXCEPT !.op = "Get", !.thread = 1, !.key = 1,
                              !.closed = is_closed, !.status = r.status,
                              !.value = r.value, !.collab = r.collab,
                              !.wb_status = w.status, !.se_status = e.status,
                              !.wb_value = w.value, !.se_value = e.value]
  /\ PipelineUnchanged
  /\ ConfigUnchanged
  /\ UNCHANGED <<wb, se, fileid, snapshots, live, nops>>

NextGet ==
  \/ \E w \in Answers, e \in Answers : GetAnswers(w, e)
  \/ Close

SpecGet == Init /\ [][NextGet]_vars

(***************************************************************************)
(* SpecCalls: one thread calling PutChunk with any offset, any chunk and   *)
(* any declared size, in any order.                                        *)
(***************************************************************************)
AnyChunk(t, k, offset_chunk, n, size_value, os) ==
  /\ nops < MaxCalls
  /\ \E chunk \in {SubSeq(ValueOf(1, offset_chunk + n), offset_chunk + 1,
                          offset_chunk + n)} :
     \E r \in {PutChunk(Ctx, t, k, chunk, offset_chunk, size_value, os)} :
       /\ SetCtx(r.c)
       /\ last' = [NoCall EXCEPT !.op = "PutChunk", !.thread = t, !.key = k,
                                 !.chunk = chunk, !.offset_chunk = offset_chunk,
                                 !.size_value = size_value, !.closed = is_closed,
                                 !.status = r.status, !.calls = r.calls]
  /\ nops' = nops + 1
  /\ DbUnchanged
  /\ UNCHANGED <<writer, alone, live>>

NextCalls ==
  \E offset_chunk \in 0..MaxOffset, n \in 0..MaxValue,
     size_value \in 0..(MaxOffset + MaxValue) :
    \E os \in OracleSeqs(n) : AnyChunk(1, 1, offset_chunk, n, size_value, os)

SpecCalls == Init /\ [][NextCalls]_vars

(***************************************************************************)
(* Properties of the chunk pipeline, on Spec.                              *)
(***************************************************************************)
Range(f) == {f[i] : i \in DOMAIN f}
RECURSIVE Bytes(_)
Bytes(orders) == IF orders = <<>> THEN <<>>
                 ELSE Head(orders).chunk \o Bytes(Tail(orders))
\* the PutChunkValidSize calls of the last API call that dispatched a chunk
Dispatches == {i \in 1..Len(last.calls) : last.calls[i].sent # <<>>}
Dispatched(i) == last.calls[i].sent[1]

\* C6 (space budget): every chunk PutChunkValidSize hands to the write
\* buffer ends within size_value + padding(size_value), and within size_value
\* when compression is none or the chunk given is empty.
C6_SpaceBudget ==
  \A i \in Dispatches :
    LET o == Dispatched(i)
    IN /\ o.offset + Len(o.chunk) <= o.size_value + CalculatePaddingSize(o.size_value)
       /\ (compression_type = kNoCompression \/ last.calls[i].n = 0)
            => o.offset + Len(o.chunk) <= o.size_value
\* a chunk dispatched on the call that switches the entry to fallback, and
\* one dispatched in fallback mode past the declared size of the value
C6_Witness ==
  /\ \E i \in Dispatches : last.calls[i].engaged
  /\ \E i \in Dispatches :
       /\ last.calls[i].ce_before = 0 /\ last.calls[i].offset_chunk # 0
       /\ Dispatched(i).offset + Len(Dispatched(i).chunk) > Dispatched(i).size_value

\* C7 (the bounds check never fires): in a well-formed chunk sequence of one
\* entry whose padding is at least a frame header, no PutChunkValidSize call
\* returns the IOError of the bounds check, whatever the compressor's output
\* length.
C7_BoundsCheckNeverFires ==
  (/\ last.op = "PutChunk"
   /\ last.wellformed
   /\ CalculatePaddingSize(last.size_value) >= size_frame_header)
    => \A i \in 1..Len(last.calls) : last.calls[i].status # StIOError(MsgOutside)

\* C8 (fallback monotonicity): a chunk at offset_chunk # 0 that finds
\* compression_enabled at 0 is not passed to the compressor, every later chunk
\* of the same API call finds it at 0 too, and compression_enabled goes from 0
\* to 1 only in a call that submits a chunk at offset_chunk = 0.
C8_InFallback(i) == last.calls[i].ce_before = 0 /\ last.calls[i].offset_chunk # 0
C8_FallbackMonotonic ==
  /\ [](\A i \in 1..Len(last.calls) :
          /\ C8_InFallback(i) => "compressor.Compress" \notin Range(last.calls[i].calls)
          /\ (/\ i < Len(last.calls)
              /\ C8_InFallback(i) \/ last.calls[i].engaged)
               => last.calls[i + 1].ce_before = 0)
  /\ [][\A t \in Threads :
          /\ (ts_compression_enabled_[t] = 0 /\ ts_compression_enabled_'[t] = 1)
               => /\ last'.thread = t
                  /\ \E i \in 1..Len(last'.calls) : last'.calls[i].offset_chunk = 0
          /\ (/\ ts_compression_enabled_[t] = 0
              /\ writer[t].pc = "writing" /\ writer[t].pos # 0)
               => ts_compression_enabled_'[t] = 0]_vars
\* a non-empty chunk written, with compression configured, after the entry
\* fell back on an earlier call
C8_Witness ==
  /\ compression_type = kLZ4Compression
  /\ last.op = "PutChunk" /\ last.offset_chunk # 0
  /\ \E i \in Dispatches :
       /\ C8_InFallback(i) /\ last.calls[i].n > 0
       /\ ts_compression_enabled_[last.thread] = 0

\* C9 (CRC coverage): over a well-formed chunk sequence of one entry the
\* CRC stream is reset once, first; then given the key, then one chunk per
\* dispatch; and read once, last; the crc32 dispatched with the last chunk is
\* the CRC32 of the key followed by the bytes dispatched for the entry, and
\* the chunks before the last carry no crc32.
C9_CrcCoverage ==
  \A t \in Threads :
    (writer[t].pc = "done" /\ writer[t].wellformed) =>
      LET log == writer[t].log
      IN /\ log # <<>>
         /\ writer[t].crccalls
              = <<"crc32.Reset">> \o [i \in 1..(Len(log) + 1) |-> "crc32.stream"]
                  \o <<"crc32.get">>
         /\ log[Len(log)].crc32 = CRC32(KeyData(writer[t].key) \o Bytes(log))
         /\ \A i \in 1..(Len(log) - 1) : log[i].crc32 = 0
\* an entry of several chunks completed in fallback mode: its bytes carry a
\* frame header the value does not have
C9_Witness ==
  \E t \in Threads :
    /\ writer[t].pc = "done" /\ writer[t].wellformed
    /\ Len(writer[t].log) >= 2
    /\ ts_compression_enabled_[t] = 0
    /\ Bytes(writer[t].log) # writer[t].value


(***************************************************************************)
(* Writer isolation, on SpecTwo.                                           *)
(***************************************************************************)
\* C10 (writer isolation): under every interleaving of two threads' calls,
\* what is dispatched for each thread's entry is what is dispatched when the
\* thread makes the same calls with no other thread running, and a call by
\* one thread leaves the other thread's compression_enabled, fallback offset,
\* compressor size and CRC state as they were.
C10_Slot(x, t) == <<x.ce[t], x.off[t], x.csize[t], x.crc[t]>>
C10_WriterIsolation ==
  /\ [](\A t \in Threads : writer[t].log = alone[t].log)
  /\ [][\A t \in Threads :
          C10_Slot(Locals, t)' # C10_Slot(Locals, t) => last'.thread = t]_vars
\* both threads are in the middle of their entries, one of them in fallback
\* mode and the other not, each with a chunk dispatched
C10_Witness ==
  /\ \A t \in Threads : writer[t].pc = "writing" /\ writer[t].log # <<>>
  /\ ts_compression_enabled_[1] # ts_compression_enabled_[2]
  /\ size_compressed_[1] # size_compressed_[2]

(***************************************************************************)
(* The mapping of Get, on SpecGet.                                         *)
(***************************************************************************)
\* C2 (Get result mapping): on an open database, a DeleteOrder from the
\* write buffer gives NotFound; a NotFound from the write buffer gives the
\* engine's status and value; any other status of the write buffer is returned
\* as it is; and the engine is consulted exactly when the write buffer
\* returned NotFound.
C2_GetMapping ==
  (last.op = "Get" /\ ~last.closed) =>
    /\ IsDeleteOrder(last.wb_status) => IsNotFound(last.status)
    /\ IsNotFound(last.wb_status)
         => last.status = last.se_status /\ last.value = last.se_value
    /\ (~IsDeleteOrder(last.wb_status) /\ ~IsNotFound(last.wb_status))
         => last.status = last.wb_status /\ last.value = last.wb_value
    /\ "se.Get" \in Range(last.collab) <=> IsNotFound(last.wb_status)
    /\ "wb.Get" \in Range(last.collab)
\* the write buffer has nothing and the engine answers with an error: the
\* engine's error is what Get returns
C2_Witness ==
  /\ last.op = "Get" /\ ~last.closed
  /\ IsNotFound(last.wb_status)
  /\ last.se_status = StIOError(MsgFs)
  /\ last.status = StIOError(MsgFs)
  /\ last.collab = <<"wb.Get", "se.Get">>


(***************************************************************************)
(* The database as its clients see it, on SpecDB.  live[k] is what the     *)
(* calls that returned OK say key k holds.                                 *)
(***************************************************************************)
\* C1 (round trip): on the open database, Get of a key whose last
\* completed write is a Put of value v returns OK and v.
C1_RoundTrip ==
  (last.op = "Get" /\ ~last.closed /\ live[last.key].kind = "value")
    => IsOK(last.status) /\ last.value = live[last.key].value

\* C3 (tombstone masking): on the open database, Get of a key whose last
\* completed write is a Delete returns NotFound, not DeleteOrder and not a
\* value, whether the orders of the key are in the write buffer or in the
\* engine.
C3_TombstoneMasking ==
  (last.op = "Get" /\ ~last.closed /\ live[last.key].kind = "deleted")
    => IsNotFound(last.status) /\ ~IsDeleteOrder(last.status)
\* Get after Put and Delete, the Put drained to the engine and readable
\* there, the tombstone still in the write buffer
C3_Witness ==
  /\ last.op = "Get" /\ ~last.closed /\ live[last.key].kind = "deleted"
  /\ IsOK(last.se_status)
  /\ IsDeleteOrder(last.wb_status)
  /\ IsNotFound(last.status)
\* C4 (closed database): once is_closed_ is set, Get, Put and Delete return
\* the IOError "The database is not open", NewSnapshot and NewIterator return
\* null, none of them calls a collaborator, and the thread-local streaming
\* state, the write buffer and the engine stay as they are.
C4_ClosedDatabase ==
  /\ [](last.closed =>
          /\ last.op \in {"Get", "Put", "Delete"} => last.status = StIOError(MsgNotOpen)
          /\ last.op \in {"NewSnapshot", "NewIterator"} => last.snapshot = 0
          /\ last.op = "NewIterator" => last.iterator = "null"
          /\ last.collab = <<>>
          /\ last.calls = <<>>)
  /\ [][is_closed => UNCHANGED <<ts_compression_enabled_, ts_offset_, size_compressed_,
                                 crc32_, wb, se, fileid, snapshots>>]_vars
\* a Delete on the closed database, the streaming state of the thread left
\* by an entry that ended in fallback mode
C4_Witness ==
  /\ last.op = "Delete" /\ last.closed
  /\ last.status = StIOError(MsgNotOpen)
  /\ ts_offset_[1] # 0

\* C5 (snapshot stability): a read through a snapshot gives, for every key,
\* what the last Put or Delete completed before NewSnapshot left for the key,
\* whatever was written since.
C5_SnapshotStability ==
  last.op = "SnapshotGet" =>
    LET then == snapshots[last.snapshot].live[last.key]
    IN IF then.kind = "value"
       THEN IsOK(last.status) /\ last.value = then.value
       ELSE IsNotFound(last.status)


(***************************************************************************)
(* PutChunk's way to the valid-size path, on SpecCalls.                    *)
(***************************************************************************)
Ceil(a, b) == (a + b - 1) \div b
MinOf(a, b) == IF a <= b THEN a ELSE b
RECURSIVE InputBytes(_)
InputBytes(calls) == IF calls = <<>> THEN <<>>
                     ELSE Head(calls).chunk \o InputBytes(Tail(calls))

\* C11 (oversize split): a PutChunk call with size_value above
\* storage__maximum_chunk_size and a chunk of n > 0 bytes at offset_chunk o, all
\* of whose submissions succeed, makes ceil(n / M) PutChunkValidSize calls;
\* call i (from 0) has offset_chunk o + i*M and the bytes [i*M, min((i+1)*M, n))
\* of the chunk, between 1 and M of them, and together they are the chunk.
C11_OversizeSplit ==
  (/\ last.op = "PutChunk" /\ ~last.closed
   /\ last.size_value > storage__maximum_chunk_size
   /\ Len(last.chunk) > 0
   /\ IsOK(last.status))
    => LET M == storage__maximum_chunk_size
           n == Len(last.chunk)
       IN /\ Len(last.calls) = Ceil(n, M)
          /\ \A i \in 1..Len(last.calls) :
               /\ last.calls[i].offset_chunk = last.offset_chunk + (i - 1) * M
               /\ last.calls[i].chunk
                    = SubSeq(last.chunk, (i - 1) * M + 1, MinOf(i * M, n))
               /\ last.calls[i].n >= 1 /\ last.calls[i].n <= M
               /\ last.calls[i].size_value = last.size_value
          /\ InputBytes(last.calls) = last.chunk
\* a chunk longer than M given at an offset other than 0 and split in two,
\* both parts dispatched
C11_Witness ==
  /\ last.op = "PutChunk" /\ IsOK(last.status)
  /\ last.offset_chunk # 0
  /\ Len(last.chunk) > storage__maximum_chunk_size
  /\ Len(last.calls) = 2
  /\ Len(Sent(last.calls)) = 2

\* C20 (no split, one submission): a PutChunk call on the open database
\* with a chunk of at most storage__maximum_chunk_size bytes, empty included,
\* makes exactly one PutChunkValidSize call, with the same offset_chunk and
\* bytes, so that when it returns OK a chunk went to the write buffer.
C20_SubmittedOnce ==
  (/\ last.op = "PutChunk" /\ ~last.closed
   /\ Len(last.chunk) <= storage__maximum_chunk_size)
    => /\ Len(last.calls) = 1
       /\ last.calls[1].chunk = last.chunk
       /\ last.calls[1].offset_chunk = last.offset_chunk
       /\ IsOK(last.status) => Sent(last.calls) # <<>>


(***************************************************************************)
(* The chunk pipeline call by call, on Spec.                               *)
(***************************************************************************)
\* the calls that went through the compressed branch with a frame produced
Compressed == {i \in 1..Len(last.calls) :
                 /\ "compressor.Compress" \in Range(last.calls[i].calls)
                 /\ last.calls[i].status # StIOError(MsgCompress)}
\* the budget test of a call as an inequality over the integers
OverBudget(call) ==
  (call.size_value - call.offset_chunk - call.n) + size_frame_header
    > (call.size_value + CalculatePaddingSize(call.size_value)
         - call.offset_chunk_compressed) - call.size_compressed

\* C12 (fallback decision): in the compressed branch, whenever
\* (size_remaining - chunk.size) + size_frame_header > space_left - out_len
\* holds over the integers, the call switches the entry to fallback
\* (compression_enabled 0) and what it dispatches is the uncompressed frame of
\* chunk.size + size_frame_header bytes.
C12_FallbackDecision ==
  \A i \in Compressed :
    OverBudget(last.calls[i]) =>
      /\ last.calls[i].engaged
      /\ \A j \in 1..Len(last.calls[i].sent) :
           last.calls[i].sent[j].chunk = UncompressedFrame(last.calls[i].chunk)
      /\ i = Len(last.calls) => ts_compression_enabled_[last.thread] = 0

\* C13 (contiguous on-disk offsets): in a well-formed chunk sequence of one
\* entry the first chunk dispatched is at offset_chunk_compressed 0 and every
\* later one starts where the one before it ends, in every mode.
C13_ContiguousOffsets ==
  \A t \in Threads :
    writer[t].wellformed =>
      LET log == writer[t].log
      IN /\ log # <<>> => log[1].offset = 0
         /\ \A i \in 1..(Len(log) - 1) :
              log[i + 1].offset = log[i].offset + Len(log[i].chunk)
\* an entry of three chunks: the first compressed, the second engaging the
\* fallback, the third written in fallback mode
C13_Witness ==
  \E t \in Threads :
    /\ writer[t].wellformed /\ writer[t].pc = "done"
    /\ Len(writer[t].log) = 3
    /\ writer[t].log[1].chunk[1] # 0
    /\ writer[t].log[2].chunk[1] = 0
    /\ Len(writer[t].log[3].chunk) = 1
    /\ writer[t].log[3].offset > writer[t].pos

\* C14 (final compressed size): with compression configured, the last chunk
\* of an entry, when not empty, is dispatched with size_value_compressed
\* equal to its offset_chunk_compressed plus the size of chunk_final, the
\* number of on-disk bytes of the entry.
C14_FinalCompressedSize ==
  \A i \in Dispatches :
    LET call == last.calls[i]
        o == Dispatched(i)
    IN (/\ compression_type # kNoCompression
        /\ call.n > 0
        /\ call.offset_chunk + call.n = call.size_value)
         => o.size_value_compressed = o.offset + Len(o.chunk)

\* C15 (sentinels and pass-through): a chunk dispatched that is not the last
\* of its entry carries crc32 0 and size_value_compressed 0; with compression
\* none every chunk dispatched for a well-formed entry is the chunk given, at
\* the offset given, with size_value_compressed 0, the last one included.
C15_SentinelsPassThrough ==
  \A i \in Dispatches :
    LET call == last.calls[i]
        o == Dispatched(i)
    IN /\ call.offset_chunk + call.n # call.size_value
            => o.crc32 = 0 /\ o.size_value_compressed = 0
       /\ (compression_type = kNoCompression /\ last.wellformed)
            => /\ o.chunk = call.chunk
               /\ o.offset = call.offset_chunk
               /\ o.size_value_compressed = 0
\* without compression, the last chunk of a well-formed entry of two chunks
\* is dispatched after a first chunk that carried the sentinels
C15_Witness ==
  /\ compression_type = kNoCompression
  /\ last.op = "PutChunk" /\ last.wellformed
  /\ \E i \in Dispatches :
       /\ last.calls[i].offset_chunk > 0
       /\ last.calls[i].offset_chunk + last.calls[i].n = last.calls[i].size_value
       /\ Dispatched(i).crc32 # 0
  /\ \E t \in Threads :
       /\ writer[t].pc = "done" /\ Len(writer[t].log) >= 2
       /\ writer[t].log[1].crc32 = 0
       /\ writer[t].log[1].size_value_compressed = 0

\* C16 (no cross-entry carryover): the orders dispatched for an entry that a
\* thread starts at offset_chunk 0 after an earlier entry of its own are the
\* orders dispatched when a thread that has written nothing makes the same
\* calls, whether the earlier entry was completed, ended in fallback mode or
\* was given up after an error.
C16_NoCarryover ==
  \A t \in Threads :
    writer[t].entries >= 2 => writer[t].log = alone[t].freshlog
\* a second entry whose first chunk went out compressed, after a first entry
\* that was switched to fallback and is still in the write buffer
C16_Witness ==
  \E t \in Threads :
    /\ compression_type # kNoCompression
    /\ writer[t].entries = 2
    /\ writer[t].log # <<>>
    /\ writer[t].log[1].chunk # <<>>
    /\ writer[t].log[1].chunk[1] # 0
    /\ \E k \in Keys :
         /\ Len(wb[k]) > (IF k = writer[t].key THEN Len(writer[t].log) ELSE 0)
         /\ wb[k][1].chunk # <<>>
         /\ wb[k][1].chunk[1] = 0

(***************************************************************************)
(* Snapshots, iterators and errors, on SpecDB.                             *)
(***************************************************************************)
\* C17 (snapshot protocol): NewSnapshot on the open database calls the write
\* buffer's Flush, the engine's FlushCurrentFileForSnapshot and the engine's
\* GetNewSnapshotData, in this order; when GetNewSnapshotData fails it returns
\* null and does nothing more; otherwise it constructs the read-only engine
\* with the ignore set and the fileid_end returned, asks it for
\* GetFileidsIterator and builds the snapshot, which it returns.
C17_SnapshotProtocol ==
  (last.op = "NewSnapshot" /\ ~last.closed) =>
    IF last.data_ok
    THEN /\ last.collab = <<"wb.Flush", "se.FlushCurrentFileForSnapshot",
                            "se.GetNewSnapshotData", "StorageEngine",
                            "se.GetFileidsIterator", "Snapshot">>
         /\ last.snapshot = Len(snapshots)
         /\ last.snapshot # 0
         /\ snapshots[last.snapshot].snapshot_id = last.snapshot
         /\ snapshots[last.snapshot].fileid_end = fileid - 1
         /\ snapshots[last.snapshot].fileids_ignore = {}
    ELSE /\ last.collab = <<"wb.Flush", "se.FlushCurrentFileForSnapshot",
                            "se.GetNewSnapshotData">>
         /\ last.snapshot = 0
\* a NewSnapshot whose GetNewSnapshotData failed, after one that succeeded
C17_Witness ==
  /\ last.op = "NewSnapshot" /\ ~last.closed /\ ~last.data_ok
  /\ last.snapshot = 0
  /\ Len(snapshots) >= 1

\* C18 (NewIterator and the null snapshot): when the NewSnapshot inside
\* NewIterator returns null, NewIterator returns null and neither asks the
\* null snapshot for an iterator nor sets it as a parent; when NewIterator
\* returns an iterator, its parent is the snapshot this call created.
C18_NullSnapshotNotUsed ==
  last.op = "NewIterator" =>
    IF last.snapshot = 0
    THEN /\ last.iterator = "null"
         /\ "null->NewIterator" \notin Range(last.collab)
    ELSE /\ last.iterator = "iterator"
         /\ last.snapshot = Len(snapshots)
         /\ SubSeq(last.collab, Len(last.collab) - 1, Len(last.collab))
              = <<"snapshot.NewIterator", "SetParentSnapshot">>

\* the call ended right after the collaborator named, at its error return
EndedAt(call, name) == call.calls # <<>> /\ call.calls[Len(call.calls)] = name
\* C19 (errors verbatim, nothing dispatched): with the engine's
\* FileSystemStatus not OK, Delete and PutChunkValidSize return that status,
\* the write buffer receives nothing and the writers' streaming state stays
\* as it was; when Compress fails PutChunkValidSize returns its error and
\* dispatches nothing; in PutChunk the first sub-chunk that fails is the last
\* one submitted and its status is the one returned.
C19_ErrorsVerbatim ==
  /\ []((last.op \in {"Put", "PutChunk"} /\ ~last.closed) =>
          \A i \in 1..Len(last.calls) :
            LET call == last.calls[i]
            IN /\ EndedAt(call, "se.FileSystemStatus")
                    => ~IsOK(call.status) /\ call.sent = <<>>
               /\ EndedAt(call, "compressor.Compress")
                    => call.status = StIOError(MsgCompress) /\ call.sent = <<>>
               /\ ~IsOK(call.status)
                    => /\ i = Len(last.calls)
                       /\ last.status = call.status
                       /\ call.sent = <<>>)
  /\ []((last.op = "Delete" /\ ~last.closed /\ ~IsOK(last.status)) =>
          last.collab = <<"se.FileSystemStatus">>)
  /\ [][(/\ nops' # nops
         /\ last'.op \in {"Put", "Delete"}
         /\ ~is_closed
         /\ ~IsOK(fs_status))
          => /\ last'.status = fs_status
             /\ wb' = wb
             /\ Locals' = Locals]_vars
\* a Put in two sub-chunks: the first dispatched, the second stopped by the
\* compressor's error, which is what Put returned
C19_Witness ==
  /\ last.op = "Put" /\ ~last.closed
  /\ Len(last.calls) = 2
  /\ IsOK(last.calls[1].status) /\ last.calls[1].sent # <<>>
  /\ EndedAt(last.calls[2], "compressor.Compress")
  /\ last.status = StIOError(MsgCompress)
============================================================================
